---- MODULE Spec2Model ----
(***************************************************************************)
(* Model of json.ts (src/src/JSON.ts): the six Value predicates, the       *)
(* parse and stringify adapters around the host JSON engine, and the       *)
(* match dispatcher.                                                       *)
(*                                                                         *)
(* Representation.  Every JavaScript value is a tagged tuple whose first   *)
(* component names its kind:                                               *)
(*   <<"null">>  <<"undefined">>  <<"symbol">>                             *)
(*   <<"boolean", b>>   <<"number", n>>   <<"string", s>>                  *)
(*   <<"array", elements>>      elements: sequence of values               *)
(*   <<"object", members>>      members: sequence of <<key, value>> in     *)
(*                              insertion order, keys distinct             *)
(*   <<"getter", x>>            as a member: an accessor that throws x     *)
(*   <<"hole">>                 as an element: a deleted array index       *)
(*   <<"constructor", name>>    a built-in constructor function            *)
(*   <<"Error", name, message, coughtError>>   an Error instance           *)
(* A number is named by its rendering ("1", "0", "-0", "NaN", "Infinity").  *)
(* A JSON text is a sequence of lexemes <<class, spelling>>.               *)
(* A completion is <<"normal", v>> or <<"throw", x>>; an adapter's outcome *)
(* is <<"return", result>> or <<"throw", x>>.                              *)
(***************************************************************************)
EXTENDS Integers, Sequences, FiniteSets

VARIABLES op, args, outcome, calls

vars == <<op, args, outcome, calls>>

\* Largest number of nodes (scalars and containers) of a caller's Value.
MaxNodes == 3

\* Largest number of lexemes of a caller's raw input text.
MaxTextLen == 3

\* Largest number of lexemes of a raw input text parsed with a reviver.
MaxRevivedLen == 2

\* JSON.stringify uses at most 10 characters of indentation per level.
MaxGap == 10

-----------------------------------------------------------------------------
(* Values *)

Null == <<"null">>

Undefined == <<"undefined">>

Symbol == <<"symbol">>

Hole == <<"hole">>

Bool(b) == <<"boolean", b>>

Num(n) == <<"number", n>>

Str(s) == <<"string", s>>

Arr(elements) == <<"array", elements>>

Obj(members) == <<"object", members>>

Getter(x) == <<"getter", x>>

Absent == <<"absent">>

ErrorObject(name, message, coughtError) == <<"Error", name, message, coughtError>>

Normal(v) == <<"normal", v>>

Throw(x) == <<"throw", x>>

Return(r) == <<"return", r>>

\* result.ts
ok(v) == <<"ok", v>>

\* result.ts
error(e) == <<"error", e>>

Kind(v) == v[1]

Range(s) == {s[i] : i \in 1..Len(s)}

MemberKeys(members) == {members[i][1] : i \in 1..Len(members)}

HasOwn(object, key) == key \in MemberKeys(object[2])

OwnValue(object, key) ==
  LET ms == object[2]
      i == CHOOSE j \in 1..Len(ms) : ms[j][1] = key
  IN ms[i][2]

-----------------------------------------------------------------------------
(* The callers' inputs *)

Scalars ==
  {Null, Bool(TRUE), Bool(FALSE), Num("1"), Num("-0"), Num("NaN"),
   Num("Infinity"), Str("Object")}

Keys == {"name", "constructor"}

RECURSIVE ValuesOfSize(_), ElementSeqs(_), MemberSeqs(_, _)

\* The well-formed JSON.Value instances of exactly n nodes.
ValuesOfSize(n) ==
  IF n = 1
    THEN Scalars \cup {Arr(<<>>), Obj(<<>>)}
    ELSE {Arr(s) : s \in ElementSeqs(n - 1)}
           \cup {Obj(ms) : ms \in MemberSeqs(n - 1, Keys)}

ElementSeqs(t) ==
  UNION {UNION {{<<v>> \o r : r \in IF k = t THEN {<<>>} ELSE ElementSeqs(t - k)}
                 : v \in ValuesOfSize(k)}
          : k \in 1..t}

MemberSeqs(t, keys) ==
  UNION {UNION {UNION {{<< <<key, v>> >> \o r
                         : r \in IF k = t THEN {<<>>}
                                          ELSE MemberSeqs(t - k, keys \ {key})}
                        : v \in ValuesOfSize(k)}
                 : key \in keys}
          : k \in 1..t}

Values == UNION {ValuesOfSize(n) : n \in 1..MaxNodes}

-----------------------------------------------------------------------------
(* Lexemes of JSON text *)

Lit(w) == <<"lit", w>>

NumLit(w) == <<"num", w>>

StrLit(s) == <<"str", s>>

Punct(c) == <<"punct", c>>

WS(c) == <<"ws", c>>

Junk(c) == <<"junk", c>>

\* JSON white space: space, tab, line feed, carriage return.
WhiteSpaceChars == {" ", "\t", "\n", "\r"}

\* The lexeme a single character of indentation contributes to the output.
CharLexeme(c) == IF c \in WhiteSpaceChars THEN WS(c) ELSE Junk(c)

Alphabet ==
  {Lit("null"), Lit("false"), NumLit("1"), NumLit("1.0"), StrLit("name"),
   Punct("["), Punct("]"), Punct("{"), Punct("}"), Punct(":"), Punct(","),
   WS(" "), Junk("x")}

RECURSIVE TextsOfLen(_)

TextsOfLen(n) ==
  IF n = 0 THEN {<<>>}
  ELSE UNION {{Append(t, a) : a \in Alphabet} : t \in TextsOfLen(n - 1)}

Texts == UNION {TextsOfLen(n) : n \in 0..MaxTextLen}

-----------------------------------------------------------------------------
(* The host engine: JSON.parse *)

SyntaxError == ErrorObject("SyntaxError", <<"Unexpected token in JSON">>, Absent)

TypeError(message) == ErrorObject("TypeError", <<message>>, Absent)

\* The Number a JSON number literal denotes.
NumberOfLiteral(w) ==
  CASE w = "1.0" -> "1"
    [] w = "1e0" -> "1"
    [] w = "0.0" -> "0"
    [] OTHER -> w

LiteralValue(w) ==
  CASE w = "null" -> Null
    [] w = "true" -> Bool(TRUE)
    [] w = "false" -> Bool(FALSE)

\* Define or overwrite a data property, keeping the first insertion's place.
SetMember(members, key, v) ==
  IF key \in MemberKeys(members)
    THEN [i \in 1..Len(members) |->
            IF members[i][1] = key THEN <<key, v>> ELSE members[i]]
    ELSE Append(members, <<key, v>>)

RemoveMember(members, key) ==
  SelectSeq(members, LAMBDA m : m[1] # key)

Failed == <<FALSE, Undefined, 0>>

RECURSIVE SkipWS(_, _)

SkipWS(t, i) ==
  IF i <= Len(t) /\ t[i][1] = "ws" THEN SkipWS(t, i + 1) ELSE i

RECURSIVE ParseValue(_, _), ParseElements(_, _, _), ParseMembers(_, _, _)

\* <<matched, value, index of the next lexeme>> for the JSON value at t[i..].
ParseValue(t, i) ==
  LET j == SkipWS(t, i) IN
  IF j > Len(t) THEN Failed
  ELSE
    LET tok == t[j]
        k == SkipWS(t, j + 1)
    IN CASE tok[1] = "lit" -> <<TRUE, LiteralValue(tok[2]), k>>
         [] tok[1] = "num" -> <<TRUE, Num(NumberOfLiteral(tok[2])), k>>
         [] tok[1] = "str" -> <<TRUE, Str(tok[2]), k>>
         [] tok = Punct("[") ->
              IF k <= Len(t) /\ t[k] = Punct("]")
                THEN <<TRUE, Arr(<<>>), SkipWS(t, k + 1)>>
                ELSE ParseElements(t, j + 1, <<>>)
         [] tok = Punct("{") ->
              IF k <= Len(t) /\ t[k] = Punct("}")
                THEN <<TRUE, Obj(<<>>), SkipWS(t, k + 1)>>
                ELSE ParseMembers(t, j + 1, <<>>)
         [] OTHER -> Failed

ParseElements(t, i, acc) ==
  LET r == ParseValue(t, i) IN
  IF ~r[1] \/ r[3] > Len(t) THEN Failed
  ELSE IF t[r[3]] = Punct(",") THEN ParseElements(t, r[3] + 1, Append(acc, r[2]))
  ELSE IF t[r[3]] = Punct("]")
    THEN <<TRUE, Arr(Append(acc, r[2])), SkipWS(t, r[3] + 1)>>
  ELSE Failed

ParseMembers(t, i, acc) ==
  LET j == SkipWS(t, i)
      c == SkipWS(t, j + 1)
  IN
  IF j > Len(t) \/ c > Len(t) THEN Failed
  ELSE IF t[j][1] # "str" \/ t[c] # Punct(":") THEN Failed
  ELSE
    LET r == ParseValue(t, c + 1) IN
    IF ~r[1] \/ r[3] > Len(t) THEN Failed
    ELSE IF t[r[3]] = Punct(",")
      THEN ParseMembers(t, r[3] + 1, SetMember(acc, t[j][2], r[2]))
    ELSE IF t[r[3]] = Punct("}")
      THEN <<TRUE, Obj(SetMember(acc, t[j][2], r[2])), SkipWS(t, r[3] + 1)>>
    ELSE Failed

\* The property key of array index i (1-based here, 0-based in JavaScript).
IndexKey(i) ==
  CASE i = 1 -> "0" [] i = 2 -> "1" [] i = 3 -> "2" [] i = 4 -> "3"
    [] i = 5 -> "4" [] OTHER -> "5"

\* Caller-supplied function (key, value) => void|Value, used as reviver or
\* replacer: named by its behaviour, x is what a throwing one throws.
Fn(behaviour, x) == <<"function", behaviour, x>>

\* Call of a reviver or replacer.
CallFn(f, key, v) ==
  CASE f[2] = "omitAll" -> Normal(Undefined)
    [] f[2] = "identity" -> Normal(v)
    [] f[2] = "zero" -> Normal(Num("0"))
    [] f[2] = "wrap" -> Normal(Obj(<< <<"v", v>> >>))
    [] f[2] = "nullMembers" -> Normal(IF key = "" THEN v ELSE Null)
    [] f[2] = "omitMembers" -> Normal(IF key = "" THEN v ELSE Undefined)
    [] f[2] = "omitRoot" -> Normal(IF key = "" THEN Undefined ELSE v)
    [] f[2] = "throws" -> Throw(f[3])

RECURSIVE Internalize(_, _, _), InternalizeElements(_, _, _), InternalizeMembers(_, _, _, _)

\* InternalizeJSONProperty: revive the members bottom-up, then the value.
Internalize(reviver, key, v) ==
  LET inner ==
        CASE Kind(v) = "array" -> InternalizeElements(reviver, v[2], 1)
          [] Kind(v) = "object" -> InternalizeMembers(reviver, v[2], v[2], 1)
          [] OTHER -> Normal(v)
  IN IF inner[1] = "throw" THEN inner ELSE CallFn(reviver, key, inner[2])

InternalizeElements(reviver, es, i) ==
  IF i > Len(es) THEN Normal(Arr(es))
  ELSE
    LET c == Internalize(reviver, IndexKey(i), es[i]) IN
    IF c[1] = "throw" THEN c
    ELSE InternalizeElements(reviver,
           [es EXCEPT ![i] = IF c[2] = Undefined THEN Hole ELSE c[2]], i + 1)

InternalizeMembers(reviver, original, ms, i) ==
  IF i > Len(original) THEN Normal(Obj(ms))
  ELSE
    LET key == original[i][1]
        c == Internalize(reviver, key, original[i][2])
    IN IF c[1] = "throw" THEN c
       ELSE InternalizeMembers(reviver, original,
              IF c[2] = Undefined THEN RemoveMember(ms, key)
                                  ELSE SetMember(ms, key, c[2]),
              i + 1)

\* JSON.parse(text, reviver): a completion.
parseJSON(text, reviver) ==
  LET r == ParseValue(text, 1) IN
  IF ~r[1] \/ r[3] # Len(text) + 1 THEN Throw(SyntaxError)
  ELSE IF Kind(reviver) = "function" THEN Internalize(reviver, "", r[2])
  ELSE Normal(r[2])

-----------------------------------------------------------------------------
(* parse *)

\* json == null
IsNullish(v) == Kind(v) \in {"null", "undefined"}

\* parse with the catch branch answering ok(null) instead of error(exception).
parse_CatchAsOk(input, reviver) ==
  LET c == parseJSON(input, reviver) IN
  IF c[1] = "throw" THEN Return(ok(Null))
  ELSE IF IsNullish(c[2]) THEN Return(ok(Null))
  ELSE Return(ok(c[2]))

\* !json
IsFalsy(v) ==
  \/ IsNullish(v)
  \/ v = Bool(FALSE)
  \/ Kind(v) = "number" /\ v[2] \in {"0", "-0", "NaN"}
  \/ v = Str("")

\* parse with the test json == null written !json.
parse_FalsyAsNull(input, reviver) ==
  LET c == parseJSON(input, reviver) IN
  IF c[1] = "throw" THEN Return(error(c[2]))
  ELSE IF IsFalsy(c[2]) THEN Return(ok(Null))
  ELSE Return(ok(c[2]))

\* parse without the json == null branch.
parse_NoNormalize(input, reviver) ==
  LET c == parseJSON(input, reviver) IN
  IF c[1] = "throw" THEN Return(error(c[2]))
  ELSE Return(ok(c[2]))

\* parse with the catch branch of stringify: a non-Error exception is wrapped.
parse_WrapsNonError(input, reviver) ==
  LET c == parseJSON(input, reviver) IN
  IF c[1] = "throw"
    THEN IF Kind(c[2]) = "Error" THEN Return(error(c[2]))
         ELSE Return(error(ErrorObject("Error", <<"non Error exception">>, c[2])))
  ELSE IF IsNullish(c[2]) THEN Return(ok(Null))
  ELSE Return(ok(c[2]))

parse(input, reviver) ==
  LET c == parseJSON(input, reviver) IN
  IF c[1] = "throw" THEN Return(error(c[2]))
  ELSE IF IsNullish(c[2]) THEN Return(ok(Null))
  ELSE Return(ok(c[2]))

-----------------------------------------------------------------------------
(* The host engine: JSON.stringify *)

Text(lexemes) == <<"text", lexemes>>

Min(a, b) == IF a < b THEN a ELSE b

IsFinite(n) == n \notin {"NaN", "Infinity", "-Infinity"}

\* Number::toString
NumberToString(n) == IF n = "-0" THEN "0" ELSE n

\* Reading a property: an accessor runs and may throw.
Get(raw) == IF Kind(raw) = "getter" THEN Throw(raw[2]) ELSE Normal(raw)

\* space argument: <<"size", n>> (a number), <<"chars", cs>> (a string) or absent.
GapOf(space) ==
  CASE Kind(space) = "size" ->
         [i \in 1..Min(MaxGap, IF space[2] < 1 THEN 0 ELSE space[2]) |-> " "]
    [] Kind(space) = "chars" -> SubSeq(space[2], 1, Min(MaxGap, Len(space[2])))
    [] OTHER -> <<>>

RECURSIVE Dedupe(_)

Dedupe(s) ==
  IF s = <<>> THEN <<>>
  ELSE LET front == Dedupe(SubSeq(s, 1, Len(s) - 1)) IN
       IF s[Len(s)] \in Range(front) THEN front ELSE Append(front, s[Len(s)])

\* filter argument: a replacer Fn, <<"whitelist", names>>, or absent.
PropertyListOf(filter) ==
  IF Kind(filter) = "whitelist" THEN <<"list", Dedupe(filter[2])>> ELSE Absent

ReplacerOf(filter) == IF Kind(filter) = "function" THEN filter ELSE Undefined

RECURSIVE Join(_, _)

Join(parts, sep) ==
  IF Len(parts) = 0 THEN <<>>
  ELSE IF Len(parts) = 1 THEN parts[1]
  ELSE parts[1] \o sep \o Join(Tail(parts), sep)

LineFeed == WS("\n")

Indentation(chars) == [i \in 1..Len(chars) |-> CharLexeme(chars[i])]

\* The text of a container from its serialized parts.
Wrap(open, close, parts, gap, indent) ==
  IF Len(parts) = 0 THEN <<Punct(open), Punct(close)>>
  ELSE IF gap = <<>>
    THEN <<Punct(open)>> \o Join(parts, <<Punct(",")>>) \o <<Punct(close)>>
  ELSE <<Punct(open), LineFeed>> \o Indentation(indent \o gap)
         \o Join(parts, <<Punct(","), LineFeed>> \o Indentation(indent \o gap))
         \o <<LineFeed>> \o Indentation(indent) \o <<Punct(close)>>

RECURSIVE SerializeJSONProperty(_, _, _, _), SerializeElements(_, _, _, _, _), SerializeMembers(_, _, _, _, _, _)

\* st = <<replacer function, property list, gap>>; raw is holder[key] unread.
\* A completion of a Text, or of Undefined when the member is to be omitted.
SerializeJSONProperty(st, key, raw, indent) ==
  LET g == Get(raw) IN
  IF g[1] = "throw" THEN g
  ELSE
    LET r == IF Kind(st[1]) = "function" THEN CallFn(st[1], key, g[2]) ELSE g IN
    IF r[1] = "throw" THEN r
    ELSE
      LET v == r[2] IN
      CASE Kind(v) = "null" -> Normal(Text(<<Lit("null")>>))
        [] Kind(v) = "boolean" ->
             Normal(Text(<<Lit(IF v[2] THEN "true" ELSE "false")>>))
        [] Kind(v) = "string" -> Normal(Text(<<StrLit(v[2])>>))
        [] Kind(v) = "number" ->
             Normal(Text(IF IsFinite(v[2]) THEN <<NumLit(NumberToString(v[2]))>>
                                           ELSE <<Lit("null")>>))
        [] Kind(v) = "array" ->
             LET c == SerializeElements(st, v[2], 1, indent, <<>>) IN
             IF c[1] = "throw" THEN c
             ELSE Normal(Text(Wrap("[", "]", c[2], st[3], indent)))
        [] Kind(v) = "object" ->
             LET names == IF st[2] = Absent
                            THEN [i \in 1..Len(v[2]) |-> v[2][i][1]]
                            ELSE st[2][2]
                 c == SerializeMembers(st, v, names, 1, indent, <<>>)
             IN IF c[1] = "throw" THEN c
                ELSE Normal(Text(Wrap("{", "}", c[2], st[3], indent)))
        [] OTHER -> Normal(Undefined)

\* SerializeJSONArray: an element that serializes to nothing is written null.
SerializeElements(st, es, i, indent, acc) ==
  IF i > Len(es) THEN Normal(acc)
  ELSE
    LET c == SerializeJSONProperty(st, IndexKey(i), es[i], indent \o st[3]) IN
    IF c[1] = "throw" THEN c
    ELSE SerializeElements(st, es, i + 1, indent,
           Append(acc, IF c[2] = Undefined THEN <<Lit("null")>> ELSE c[2][2]))

\* SerializeJSONObject: a member that serializes to nothing is left out.
SerializeMembers(st, object, names, i, indent, acc) ==
  IF i > Len(names) THEN Normal(acc)
  ELSE
    LET raw == IF HasOwn(object, names[i]) THEN OwnValue(object, names[i])
                                           ELSE Undefined
        c == SerializeJSONProperty(st, names[i], raw, indent \o st[3])
    IN IF c[1] = "throw" THEN c
       ELSE SerializeMembers(st, object, names, i + 1, indent,
              IF c[2] = Undefined THEN acc
              ELSE Append(acc,
                     <<StrLit(names[i]), Punct(":")>>
                       \o (IF st[3] = <<>> THEN <<>> ELSE <<WS(" ")>>)
                       \o c[2][2]))

\* JSON.stringify(value, filter, space): a completion of a Text or of Undefined.
stringifyJSON(value, filter, space) ==
  SerializeJSONProperty(<<ReplacerOf(filter), PropertyListOf(filter), GapOf(space)>>,
                        "", value, <<>>)

-----------------------------------------------------------------------------
(* stringify *)

\* exception instanceof Error
InstanceOfError(x) == Kind(x) = "Error"

RECURSIVE ToString(_), JoinToString(_, _, _)

\* `${x}`: a completion of the rendering, as a sequence of pieces.
ToString(x) ==
  CASE Kind(x) = "undefined" -> Normal(<<"undefined">>)
    [] Kind(x) = "null" -> Normal(<<"null">>)
    [] Kind(x) = "boolean" -> Normal(<<IF x[2] THEN "true" ELSE "false">>)
    [] Kind(x) = "number" -> Normal(<<NumberToString(x[2])>>)
    [] Kind(x) = "string" -> Normal(<<x[2]>>)
    [] Kind(x) = "symbol" ->
         Throw(TypeError("Cannot convert a Symbol value to a string"))
    [] Kind(x) = "array" -> JoinToString(x[2], 1, <<>>)
    [] Kind(x) = "object" -> Normal(<<"[object Object]">>)
    [] Kind(x) = "Error" -> Normal(<<x[2], ": ">> \o x[3])

\* Array.prototype.join(","): null and undefined elements render empty.
JoinToString(es, i, acc) ==
  IF i > Len(es) THEN Normal(acc)
  ELSE
    LET c == IF Kind(es[i]) \in {"null", "undefined", "hole"} THEN Normal(<<>>)
             ELSE ToString(es[i])
    IN IF c[1] = "throw" THEN c
       ELSE JoinToString(es, i + 1,
              acc \o (IF i = 1 THEN <<>> ELSE <<",">>) \o c[2])

NonErrorPrefix == "JSON.stringify has thrown non Error exception: "

\* stringify without the json == null branch.
stringify_NoNormalize(value, replacerOrWhiteList, spaceOrSize) ==
  LET c == stringifyJSON(value, replacerOrWhiteList, spaceOrSize) IN
  IF c[1] = "normal" THEN Return(ok(c[2]))
  ELSE IF InstanceOfError(c[2]) THEN Return(error(c[2]))
  ELSE
    LET s == ToString(c[2]) IN
    IF s[1] = "throw" THEN Throw(s[2])
    ELSE Return(error(ErrorObject("Error", <<NonErrorPrefix>> \o s[2], c[2])))

stringify(value, replacerOrWhiteList, spaceOrSize) ==
  LET c == stringifyJSON(value, replacerOrWhiteList, spaceOrSize) IN
  IF c[1] = "normal"
    THEN IF IsNullish(c[2]) THEN Return(ok(Text(<<Lit("null")>>)))
                            ELSE Return(ok(c[2]))
  ELSE
    LET exception == c[2] IN
    IF InstanceOfError(exception) THEN Return(error(exception))
    ELSE
      LET s == ToString(exception) IN
      IF s[1] = "throw" THEN Throw(s[2])
      ELSE Return(error(ErrorObject("Error", <<NonErrorPrefix>> \o s[2], exception)))

-----------------------------------------------------------------------------
(* The Value predicates *)

\* typeof value
TypeOf(value) ==
  IF Kind(value) \in {"number", "boolean", "string", "undefined", "symbol"}
    THEN Kind(value)
    ELSE "object"

isNull(value) == Kind(value) = "null"

isBoolean(value) == TypeOf(value) = "boolean"

isNumber(value) == TypeOf(value) = "number"

isString(value) == TypeOf(value) = "string"

\* array.is of ./Array
ArrayIs(value) == Kind(value) = "array"

isArray(value) == ArrayIs(value)

\* value.constructor: an own member shadows the one inherited from the prototype.
ConstructorOf(value) ==
  CASE Kind(value) = "object" ->
         IF HasOwn(value, "constructor") THEN OwnValue(value, "constructor")
                                         ELSE <<"constructor", "Object">>
    [] Kind(value) = "array" -> <<"constructor", "Array">>
    [] Kind(value) = "number" -> <<"constructor", "Number">>
    [] Kind(value) = "string" -> <<"constructor", "String">>
    [] Kind(value) = "boolean" -> <<"constructor", "Boolean">>

\* c.name: a completion; reading a property of null or undefined throws.
NameOf(c) ==
  CASE IsNullish(c) -> Throw(TypeError("Cannot read property 'name' of null"))
    [] Kind(c) = "constructor" -> Normal(Str(c[2]))
    [] Kind(c) = "object" ->
         Normal(IF HasOwn(c, "name") THEN OwnValue(c, "name") ELSE Undefined)
    [] OTHER -> Normal(Undefined)

\* A completion of a boolean.
isObject(value) ==
  IF IsNullish(value) THEN Normal(FALSE)
  ELSE
    LET n == NameOf(ConstructorOf(value)) IN
    IF n[1] = "throw" THEN n
    ELSE Normal(Kind(n[2]) = "string" /\ n[2][2] = "Object")

\* The completions of the six predicates applied to value, in that order.
Predicates(value) ==
  <<Normal(isNull(value)), Normal(isBoolean(value)), Normal(isNumber(value)),
    Normal(isString(value)), Normal(isArray(value)), isObject(value)>>

-----------------------------------------------------------------------------
(* match *)

\* The caller's handlers: each returns a tag naming itself.
Tag(handler) == <<"tag", handler>>

\* A handler invocation: what it is called with and what it returns.
Invoke(handler, value) == <<handler, value, Tag(handler)>>

\* match without the value == null branch under case 'object'.
match_NullAsObject(value) ==
  CASE TypeOf(value) = "number" -> Invoke("Number", value)
    [] TypeOf(value) = "boolean" -> Invoke("Boolean", value)
    [] TypeOf(value) = "string" -> Invoke("String", value)
    [] OTHER ->
         IF isArray(value) THEN Invoke("Array", value)
         ELSE Invoke("Object", value)

\* The invocation the dispatcher makes for value.
match(value) ==
  CASE TypeOf(value) = "number" -> Invoke("Number", value)
    [] TypeOf(value) = "boolean" -> Invoke("Boolean", value)
    [] TypeOf(value) = "string" -> Invoke("String", value)
    [] OTHER ->
         IF IsNullish(value) THEN Invoke("Null", value)
         ELSE IF isArray(value) THEN Invoke("Array", value)
         ELSE Invoke("Object", value)

-----------------------------------------------------------------------------
(* The callers' arguments *)

\* What an accessor, a reviver or a replacer may throw.
Thrown == {ErrorObject("Error", <<"boom">>, Absent), Num("2"), Undefined, Symbol}

\* Objects that are Values by type but hold a throwing property accessor.
AccessorValues ==
  {Obj(<< <<"name", Getter(x)>> >>) : x \in Thrown}
    \cup {Arr(<<Obj(<< <<"name", Getter(x)>> >>)>>) : x \in Thrown}

Revivers ==
  {Fn("omitAll", Undefined), Fn("identity", Undefined), Fn("wrap", Undefined),
   Fn("nullMembers", Undefined), Fn("omitMembers", Undefined),
   Fn("omitRoot", Undefined)}
    \cup {Fn("throws", x) : x \in Thrown}

Filters ==
  {<<"whitelist", <<"name", "name">> >>, Fn("omitAll", Undefined),
   Fn("zero", Undefined)}

Spaces ==
  {<<"chars", <<"x">> >>, <<"size", 2>>, <<"size", 11>>,
   <<"chars", [i \in 1..11 |-> " "]>>}

\* The JSON documents of the Values: valid texts to parse.
Documents ==
  {c[2][2] : c \in {stringifyJSON(v, Undefined, Undefined) : v \in Values}}

ShortTexts == UNION {TextsOfLen(n) : n \in 0..MaxRevivedLen}

-----------------------------------------------------------------------------
Init ==
  /\ op = "idle"
  /\ args = <<>>
  /\ outcome = <<"none">>
  /\ calls = <<>>

\* parse(input)
Parse ==
  /\ op = "idle"
  /\ \E input \in Texts \cup Documents :
       /\ op' = "parse"
       /\ args' = <<input, Undefined>>
       /\ outcome' = parse(input, Undefined)
       /\ calls' = <<>>

\* parse(input, reviver)
ParseWithReviver ==
  /\ op = "idle"
  /\ \E input \in ShortTexts \cup Documents, reviver \in Revivers :
       /\ op' = "parseWithReviver"
       /\ args' = <<input, reviver>>
       /\ outcome' = parse(input, reviver)
       /\ calls' = <<>>

\* stringify(value)
Stringify ==
  /\ op = "idle"
  /\ \E value \in Values \cup AccessorValues :
       /\ op' = "stringify"
       /\ args' = <<value, Undefined, Undefined>>
       /\ outcome' = stringify(value, Undefined, Undefined)
       /\ calls' = <<>>

\* stringify(value, whiteList) and stringify(value, replacer)
StringifyWithFilter ==
  /\ op = "idle"
  /\ \E value \in Values \cup AccessorValues, filter \in Filters :
       /\ op' = "stringifyWithFilter"
       /\ args' = <<value, filter, Undefined>>
       /\ outcome' = stringify(value, filter, Undefined)
       /\ calls' = <<>>

\* stringify(value, replacerOrWhiteList, space) and (.., spaceSize)
StringifyWithSpace ==
  /\ op = "idle"
  /\ \E value \in Values \cup AccessorValues, filter \in Filters \cup {Undefined},
        space \in Spaces :
       /\ op' = "stringifyWithSpace"
       /\ args' = <<value, filter, space>>
       /\ outcome' = stringify(value, filter, space)
       /\ calls' = <<>>

\* match(Null, Boolean, Number, String, Array, Object)(value)
Match ==
  /\ op = "idle"
  /\ \E value \in Values :
       LET inv == match(value) IN
         /\ op' = "match"
         /\ args' = <<value>>
         /\ calls' = << <<inv[1], inv[2]>> >>
         /\ outcome' = Return(inv[3])

\* isNull(value), isBoolean(value), ..., isObject(value)
Classify ==
  /\ op = "idle"
  /\ \E value \in Values :
       /\ op' = "classify"
       /\ args' = <<value>>
       /\ outcome' = Predicates(value)
       /\ calls' = <<>>

\* The synchronous call has returned; the caller makes its next call.
Done ==
  /\ op # "idle"
  /\ op' = "idle"
  /\ args' = <<>>
  /\ outcome' = <<"none">>
  /\ calls' = <<>>

Next ==
  \/ Parse
  \/ ParseWithReviver
  \/ Stringify
  \/ StringifyWithFilter
  \/ StringifyWithSpace
  \/ Match
  \/ Classify
  \/ Done

Spec == Init /\ [][Next]_vars

-----------------------------------------------------------------------------
(* Vocabulary of the properties *)

IsStringifyOp == op \in {"stringify", "stringifyWithFilter", "stringifyWithSpace"}

IsOk(r) == r[1] = "return" /\ r[2][1] = "ok"

IsErr(r) == r[1] = "return" /\ r[2][1] = "error"

Payload(r) == r[2][2]

RECURSIVE IsValue(_), AllFinite(_), DeepEqual(_, _)

\* v is a well-formed JSON.Value: no accessor, hole or undefined inside.
IsValue(v) ==
  CASE Kind(v) \in {"null", "boolean", "number", "string"} -> TRUE
    [] Kind(v) = "array" -> \A i \in 1..Len(v[2]) : IsValue(v[2][i])
    [] Kind(v) = "object" -> \A i \in 1..Len(v[2]) : IsValue(v[2][i][2])
    [] OTHER -> FALSE

\* No number inside v is NaN or an infinity.
AllFinite(v) ==
  CASE Kind(v) = "number" -> IsFinite(v[2])
    [] Kind(v) = "array" -> \A i \in 1..Len(v[2]) : AllFinite(v[2][i])
    [] Kind(v) = "object" -> \A i \in 1..Len(v[2]) : AllFinite(v[2][i][2])
    [] OTHER -> TRUE

\* a === b on numbers: NaN equals nothing, -0 equals 0.
StrictEqualNumbers(a, b) ==
  /\ a # "NaN"
  /\ b # "NaN"
  /\ (IF a = "-0" THEN "0" ELSE a) = (IF b = "-0" THEN "0" ELSE b)

\* deepEqual of the tests: same shape, same members in any order, === leaves.
DeepEqual(a, b) ==
  IF Kind(a) # Kind(b) THEN FALSE
  ELSE CASE Kind(a) = "number" -> StrictEqualNumbers(a[2], b[2])
         [] Kind(a) = "array" ->
              /\ Len(a[2]) = Len(b[2])
              /\ \A i \in 1..Len(a[2]) : DeepEqual(a[2][i], b[2][i])
         [] Kind(a) = "object" ->
              /\ MemberKeys(a[2]) = MemberKeys(b[2])
              /\ \A k \in MemberKeys(a[2]) : DeepEqual(OwnValue(a, k), OwnValue(b, k))
         [] OTHER -> a = b

HandlerNames == <<"Null", "Boolean", "Number", "String", "Array", "Object">>

\* The handler that belongs to the variant of a well-formed Value.
HandlerOfVariant(v) ==
  CASE Kind(v) = "null" -> "Null"
    [] Kind(v) = "boolean" -> "Boolean"
    [] Kind(v) = "number" -> "Number"
    [] Kind(v) = "string" -> "String"
    [] Kind(v) = "array" -> "Array"
    [] Kind(v) = "object" -> "Object"

HasJunk(text) == \E i \in 1..Len(text) : text[i][1] = "junk"

-----------------------------------------------------------------------------
(* Properties *)

\* C1: parse without a reviver never throws and classifies its input exactly:
\* a text the host parser accepts gives Ok of the host's value, a text it
\* rejects (the empty text, any text with a stray character) gives Err of
\* the error the host threw; every JSON document of a Value is accepted.
C1_ParseClassifies ==
  op = "parse" =>
    LET host == parseJSON(args[1], Undefined) IN
      /\ outcome[1] = "return"
      /\ host[1] = "normal" => outcome[2] = ok(host[2])
      /\ host[1] = "throw" => outcome[2] = error(host[2])
      /\ args[1] \in Documents => outcome[2][1] = "ok"
      /\ (args[1] = <<>> \/ HasJunk(args[1])) => outcome[2] = error(SyntaxError)

C1_Witness ==
  /\ op = "parse"
  /\ args[1] = <<Punct("["), NumLit("1.0"), Punct("]")>>
  /\ outcome = Return(ok(Arr(<<Num("1")>>)))

\* C2: every Ok text of stringify, in any of its three call shapes, parses:
\* parse of it returns Ok.
C2_OkReparses ==
  (IsStringifyOp /\ IsOk(outcome)) => IsOk(parse(Payload(outcome)[2], Undefined))

\* C3 as stated: for every well-formed Value V, stringify(V) is Ok and parse of
\* its text is Ok of a value deep-equal to V.
C3_RoundTrip ==
  (op = "stringify" /\ IsValue(args[1])) =>
    /\ IsOk(outcome)
    /\ LET back == parse(Payload(outcome)[2], Undefined) IN
         IsOk(back) /\ DeepEqual(Payload(back), args[1])

\* C3 amended: for every well-formed Value V none of whose numbers is NaN or
\* an infinity, stringify(V) is Ok and parse of its text is Ok of a value
\* deep-equal to V.
C3_RoundTripFinite ==
  (op = "stringify" /\ IsValue(args[1]) /\ AllFinite(args[1])) =>
    /\ IsOk(outcome)
    /\ LET back == parse(Payload(outcome)[2], Undefined) IN
         IsOk(back) /\ DeepEqual(Payload(back), args[1])

C3_Witness ==
  /\ op = "stringify"
  /\ args[1] = Obj(<< <<"constructor", Num("-0")>>, <<"name", Bool(FALSE)>> >>)
  /\ IsOk(outcome)
  /\ parse(Payload(outcome)[2], Undefined)
       = Return(ok(Obj(<< <<"constructor", Num("0")>>, <<"name", Bool(FALSE)>> >>)))

\* C4: whenever the host serializer throws x, stringify does not throw and
\* returns Err(e): e is x itself when x is an Error, otherwise a new Error
\* whose message is the fixed prefix followed by the rendering of x and whose
\* coughtError is x.
C4_ThrownNormalized ==
  IsStringifyOp =>
    LET host == stringifyJSON(args[1], args[2], args[3]) IN
    host[1] = "throw" =>
      /\ IsErr(outcome)
      /\ InstanceOfError(host[2]) => Payload(outcome) = host[2]
      /\ ~InstanceOfError(host[2]) =>
           /\ Kind(Payload(outcome)) = "Error"
           /\ Payload(outcome)[3][1] = NonErrorPrefix
           /\ Len(Payload(outcome)[3]) > 1
           /\ Payload(outcome)[4] = host[2]

\* C5: for every well-formed Value none of the six predicates fails and
\* exactly one of them returns true.
C5_ExactlyOnePredicate ==
  op = "classify" =>
    /\ \A i \in 1..6 : outcome[i][1] = "normal"
    /\ Cardinality({i \in 1..6 : outcome[i] = Normal(TRUE)}) = 1

\* C6: the dispatcher invokes exactly one handler, once, with the value itself,
\* the handler being the one of the value's variant, and returns its result;
\* nothing is invoked for the members of a container.
C6_MatchDispatch ==
  op = "match" =>
    /\ calls = << <<HandlerOfVariant(args[1]), args[1]>> >>
    /\ outcome = Return(Tag(HandlerOfVariant(args[1])))

C6_Witness ==
  /\ op = "match"
  /\ args[1] = Arr(<<Obj(<<>>), Null>>)
  /\ calls = << <<"Array", Arr(<<Obj(<<>>), Null>>)>> >>
  /\ outcome = Return(Tag("Array"))

\* C7: when the host serializer returns undefined (the replacer omitted the
\* root), stringify returns Ok of the text null, and parse of that text
\* returns Ok(null).
C7_OmittedIsNullText ==
  (IsStringifyOp /\ stringifyJSON(args[1], args[2], args[3]) = Normal(Undefined)) =>
    /\ outcome = Return(ok(Text(<<Lit("null")>>)))
    /\ parse(Payload(outcome)[2], Undefined) = Return(ok(Null))

C7_Witness ==
  /\ op = "stringifyWithFilter"
  /\ args[1] = Obj(<<>>)
  /\ args[2] = Fn("omitAll", Undefined)
  /\ outcome = Return(ok(Text(<<Lit("null")>>)))

\* C8: the payload of an Ok result of parse is never undefined; when the
\* reviver omits the root of a valid text the result is Ok(null); when it
\* returns a value for the root the result is Ok of that value (the identity
\* reviver gives what parse without a reviver gives).
C8_ReviverOmitsRoot ==
  op = "parseWithReviver" =>
    LET plain == parseJSON(args[1], Undefined)
        host == parseJSON(args[1], args[2])
    IN /\ IsOk(outcome) => Kind(Payload(outcome)) # "undefined"
       /\ (plain[1] = "normal" /\ args[2][2] \in {"omitAll", "omitRoot"}) =>
            outcome = Return(ok(Null))
       /\ (host[1] = "normal" /\ host[2] = Undefined) => outcome = Return(ok(Null))
       /\ (host[1] = "normal" /\ host[2] # Undefined) => outcome = Return(ok(host[2]))
       /\ (plain[1] = "normal" /\ args[2][2] = "identity") =>
            outcome = Return(ok(plain[2]))

C8_Witness ==
  /\ op = "parseWithReviver"
  /\ args = << <<Lit("true")>>, Fn("omitAll", Undefined) >>
  /\ outcome = Return(ok(Null))

\* C9: the handler the dispatcher invokes for a well-formed Value is the one
\* whose predicate returns true for it; the Object handler is invoked iff
\* isObject is true, the Array handler iff isArray is true.
C9_MatchAgreesWithPredicates ==
  op = "match" =>
    LET v == args[1]
        h == calls[1][1]
    IN /\ \A i \in 1..6 : (HandlerNames[i] = h) => Predicates(v)[i] = Normal(TRUE)
       /\ (h = "Object") <=> (isObject(v) = Normal(TRUE))
       /\ (h = "Array") <=> isArray(v)

====
